---- MODULE Spec2Model ----
(***************************************************************************)
(* NodeStat: the refresh orchestrator of the terminal dashboard (package   *)
(* ui: App.Init, App.Update, App.fetchData, App.calculateStats), the data  *)
(* model it publishes (package models: Node, Job, ClusterStats) and the    *)
(* scheduler backends seen through the Scheduler interface.                *)
(*                                                                         *)
(* go `int` is 64 bits wide on every supported platform; all quantities of *)
(* the model stay far below 2^63, so integers are left unbounded.          *)
(***************************************************************************)
EXTENDS Integers, Sequences, FiniteSets, TLC

(***************************************************************************)
(* Bounds of the model.                                                    *)
(***************************************************************************)
\* refresh attempts (fetchData commands) ever started, the one of Init included
MaxAttempts == 3
\* fetchData commands running at the same time
MaxInFlight == 2
\* longest node list handed to the ranking alone
MaxRank == 3
\* most jobs in one job report
MaxJobs == 2
\* most lines in one node report
MaxLines == 3
\* longest node list handed to the aggregation engine
MaxLen == 2

(***************************************************************************)
(* package models                                                          *)
(***************************************************************************)
StateIdle == "Idle"
StateRunning == "Running"
StateDown == "Down"
StateOffline == "Offline"
StateBusy == "Busy"
StateDrained == "Drained"
NodeStates == {StateIdle, StateRunning, StateDown, StateOffline, StateBusy, StateDrained}

JobRunning == "R"
JobPending == "PD"

\* a models.Node; Partitions and Jobs are never read by the orchestrator's
\* decisions and are left out
Node(id, st, tc, uc, tm, um) ==
    [ID |-> id, State |-> st, TotalCores |-> tc, UsedCores |-> uc,
     TotalMemMB |-> tm, UsedMemMB |-> um]

\* a models.Job, the fields the orchestrator reads
Job(id, user, st, nodeList, part) ==
    [ID |-> id, User |-> user, State |-> st, NodeList |-> nodeList, Partition |-> part]

\* go's integer division truncates toward zero
GoDiv(a, b) ==
    LET aa == IF a < 0 THEN -a ELSE a
        bb == IF b < 0 THEN -b ELSE b
        q  == aa \div bb
    IN  IF (a < 0) # (b < 0) THEN -q ELSE q

GetAvailCores(n) == n.TotalCores - n.UsedCores

GetAvailMemGB(n) == GoDiv(n.TotalMemMB - n.UsedMemMB, 1000)

GetTotalMemGB(n) == GoDiv(n.TotalMemMB, 1000)

GetUsedMemGB(n) == GoDiv(n.UsedMemMB, 1000)

\* mutant of IsAvailable: the free memory compared in MB
IsAvailable_FreeMB(n) ==
    /\ (n.State = StateIdle \/ n.State = StateRunning)
    /\ GetAvailCores(n) > 0
    /\ n.TotalMemMB - n.UsedMemMB > 0

IsAvailable(n) ==
    /\ (n.State = StateIdle \/ n.State = StateRunning)
    /\ GetAvailCores(n) > 0
    /\ GetAvailMemGB(n) > 0

\* the zero value of models.ClusterStats
ZeroStats ==
    [TotalNodes |-> 0, AvailNodes |-> 0, TotalCores |-> 0, UsedCores |-> 0,
     AvailCores |-> 0, TotalMemoryGB |-> 0, UsedMemoryGB |-> 0, AvailMemoryGB |-> 0]

(***************************************************************************)
(* App.calculateStats: one pass over the list, then the two differences.   *)
(***************************************************************************)
\* mutant of StatsAdd: availability counted by state alone
StatsAdd_StateOnly(stats, node) ==
    [stats EXCEPT
        !.TotalNodes = @ + 1,
        !.TotalCores = @ + node.TotalCores,
        !.UsedCores = @ + node.UsedCores,
        !.TotalMemoryGB = @ + GetTotalMemGB(node),
        !.UsedMemoryGB = @ + GetUsedMemGB(node),
        !.AvailNodes = IF node.State = StateIdle \/ node.State = StateRunning
                       THEN @ + 1 ELSE @]

\* the body of the loop, for one node
StatsAdd(stats, node) ==
    [stats EXCEPT
        !.TotalNodes = @ + 1,
        !.TotalCores = @ + node.TotalCores,
        !.UsedCores = @ + node.UsedCores,
        !.TotalMemoryGB = @ + GetTotalMemGB(node),
        !.UsedMemoryGB = @ + GetUsedMemGB(node),
        !.AvailNodes = IF IsAvailable(node) THEN @ + 1 ELSE @]

RECURSIVE StatsLoop(_, _, _)
StatsLoop(stats, ns, k) ==
    IF k > Len(ns) THEN stats ELSE StatsLoop(StatsAdd(stats, ns[k]), ns, k + 1)

\* mutant of calculateStats: the available memory accumulated from the
\* nodes' own available GB instead of taken as the difference of the sums
RECURSIVE AvailMemLoop(_, _)
AvailMemLoop(ns, k) ==
    IF k > Len(ns) THEN 0 ELSE GetAvailMemGB(ns[k]) + AvailMemLoop(ns, k + 1)

calculateStats_PerNodeAvail(ns) ==
    LET s == StatsLoop(ZeroStats, ns, 1)
    IN  [s EXCEPT !.AvailCores = s.TotalCores - s.UsedCores,
                  !.AvailMemoryGB = AvailMemLoop(ns, 1)]

calculateStats(ns) ==
    LET s == StatsLoop(ZeroStats, ns, 1)
    IN  [s EXCEPT !.AvailCores = s.TotalCores - s.UsedCores,
                  !.AvailMemoryGB = s.TotalMemoryGB - s.UsedMemoryGB]

(***************************************************************************)
(* The ranking of App.fetchData: sort.Slice with the comparison below.     *)
(***************************************************************************)
\* stateOrder[s]: a state missing from the map reads as go's zero value
stateOrder(s) ==
    CASE s = StateRunning -> 0
      [] s = StateBusy -> 1
      [] s = StateDrained -> 2
      [] s = StateDown -> 3
      [] s = StateOffline -> 4
      [] OTHER -> 0

\* mutant of Power: the memory left out of the score
Power_CoresOnly(n) == GetAvailCores(n) * 1000

\* mutant of Power: the cores weighted by 100
Power_Weight100(n) == GetAvailCores(n) * 100 + GetAvailMemGB(n)

\* the power score of an available node
Power(n) == GetAvailCores(n) * 1000 + GetAvailMemGB(n)

\* mutant of less: the power score compared before the availability
less_PowerFirst(ni, nj) == Power(ni) > Power(nj)

\* the less function handed to sort.Slice
less(ni, nj) ==
    IF IsAvailable(ni) # IsAvailable(nj) THEN IsAvailable(ni)
    ELSE IF IsAvailable(ni) /\ IsAvailable(nj) THEN Power(ni) > Power(nj)
    ELSE stateOrder(ni.State) < stateOrder(nj.State)

Perms(n) == {f \in [1..n -> 1..n] : \A i, j \in 1..n : f[i] = f[j] => i = j}

\* sort.Slice sorts in place and promises no stability: every arrangement of
\* the list that is ordered by less is a result it may leave
SortOutcomes(ns) ==
    {[k \in 1..Len(ns) |-> ns[f[k]]] : f \in
        {g \in Perms(Len(ns)) :
            \A i, j \in 1..Len(ns) : i < j => ~less(ns[g[j]], ns[g[i]])}}

(***************************************************************************)
(* App.updateTable and App.formatResourceBar.                              *)
(***************************************************************************)
\* the length of the bar
barLength == 20

\* filledLength := int(percentage * float64(barLength))
FilledLength(used, total) == GoDiv(used * barLength, total)

\* strings.Repeat panics on a negative count
BarPanics(used, total) ==
    /\ total # 0
    /\ (FilledLength(used, total) < 0 \/ barLength - FilledLength(used, total) < 0)

userHasJobsOnNode(ujobs, nodeID) ==
    \E k \in 1..Len(ujobs) :
        /\ ujobs[k].State = JobRunning
        /\ \E m \in 1..Len(ujobs[k].NodeList) : ujobs[k].NodeList[m] = nodeID

\* one table.Row, the bars by their filled length (0 for the 0/0 bar)
TableRow(ujobs, n) ==
    [Node |-> n.ID,
     Star |-> userHasJobsOnNode(ujobs, n.ID),
     CPU |-> IF n.TotalCores = 0 THEN 0 ELSE FilledLength(n.UsedCores, n.TotalCores),
     Memory |-> IF GetTotalMemGB(n) = 0 THEN 0
                ELSE FilledLength(GetUsedMemGB(n), GetTotalMemGB(n)),
     AvailCPU |-> GetAvailCores(n),
     AvailMem |-> GetAvailMemGB(n),
     State |-> n.State]

\* whether building the rows of ns panics
updateTablePanics(ns) ==
    \E k \in 1..Len(ns) :
        \/ BarPanics(ns[k].UsedCores, ns[k].TotalCores)
        \/ BarPanics(GetUsedMemGB(ns[k]), GetTotalMemGB(ns[k]))

updateTableRows(ns, ujobs) == [k \in 1..Len(ns) |-> TableRow(ujobs, ns[k])]

(***************************************************************************)
(* The scheduler behind the Scheduler interface, as the orchestrator sees  *)
(* it: every call either fails or returns one of the reports the cluster   *)
(* can give for the partition asked.                                       *)
(***************************************************************************)
\* the partitions of the three keys of App.Update
KeyPartitions == {"batch", "highmem_q", "gpu_q"}

\* what a read of a.currentPartition returns when it overlaps a write of a
\* string of another length: the data pointer of one string with the length
\* of the other, which names no partition
TornPartition == "torn"

\* the -q flag of main, at its default
InitPartitions == {"batch"}

\* os.Getenv("USER") at NewApp
currentUser == "alice"

\* the node lists the cluster can report for a partition, in the order of the
\* report; none for a partition it does not have
NodeReports(p) ==
    CASE p = "batch" ->
           {<<Node("batch002", StateRunning, 4, 4, 2500, 2500),
              Node("batch001", StateIdle, 4, 0, 2500, 700)>>}
      [] p = "highmem_q" ->
           {<<Node("highmem001", StateRunning, 8, 2, 4000, 1500)>>}
      [] p = "gpu_q" ->
           {<<Node("gpu001", StateBusy, 4, 6, 3000, 3000)>>}
      [] OTHER -> {}

\* the running jobs the cluster can report for a partition
JobReports(p) == {<<Job("100001", "bob", JobRunning, <<"node001">>, p)>>}

\* the jobs of the user the cluster can report
UserJobReports ==
    {<<Job("200001", currentUser, JobRunning, <<"batch001">>, "batch")>>}

\* GetNodes(p): an error (the command failed, or no node of the partition
\* was found), or a non-empty node list
GetNodes(p) ==
    {[ok |-> FALSE, val |-> << >>]} \cup {[ok |-> TRUE, val |-> r] : r \in NodeReports(p)}

GetJobs(p) ==
    {[ok |-> FALSE, val |-> << >>]} \cup {[ok |-> TRUE, val |-> r] : r \in JobReports(p)}

GetUserJobs(user) ==
    {[ok |-> FALSE, val |-> << >>]} \cup {[ok |-> TRUE, val |-> r] : r \in UserJobReports}

(***************************************************************************)
(* The App and the commands in flight.                                     *)
(***************************************************************************)
VARIABLES
    currentPartition,   \* a.currentPartition
    nodes,              \* a.nodes
    jobs,               \* a.jobs
    userJobs,           \* a.userJobs
    stats,              \* a.stats
    lastUpdate,         \* a.lastUpdate, 0 for the zero time
    err,                \* a.err, NoErr for nil
    size,               \* <<a.width, a.height>>
    nodesTable,         \* a.nodesTable: its height and its rows
    status,             \* "running", "quit" (tea.Quit) or "panic"
    timers,             \* the tea.Tick commands armed and not yet handled
    attempts,           \* the fetchData commands, by the order they were started
    nextId,             \* the number of the next fetchData command
    completed,          \* history: the attempts whose result Update has handled, in order
    src,                \* history: the attempt each published field was taken from
    input,              \* aggregation engine alone: the node list given
    output              \* aggregation engine alone: the result computed from input

appVars == <<currentPartition, nodes, jobs, userJobs, stats, lastUpdate, err, size,
             nodesTable, status>>
histVars == <<completed, src>>
aggVars == <<input, output>>
vars == <<appVars, timers, attempts, nextId, histVars, aggVars>>

NoErr == "nil"
NoMsg == [type |-> "none"]
NoOutput == [op |-> "none"]

Attempts == 1..MaxAttempts

\* a fetchData command that was not started
\* pc: "idle", "nodes" (before GetNodes), "jobs" (before GetJobs), "reply"
\* (it has returned its message, which is on its way to Update) or "done"
\* (Update has handled the message). nodes is its local variable, msg the
\* message it returned.
\* History: trig, until its first call, the event that created it; want,
\* while the command runs, the partition of the key when a partition key
\* created it; partN and partJ, the partitions it called
\* GetNodes and GetJobs with (kept with a dataMsg); failed, the call that
\* failed; userErr, whether GetUserJobs failed.
Idle ==
    [pc |-> "idle", trig |-> "", want |-> "", partN |-> "", partJ |-> "",
     nodes |-> << >>, userErr |-> FALSE, failed |-> "", msg |-> NoMsg]

\* a fetchData command as a.fetchData() returns it: nothing has run yet
Started(trig, want) == [Idle EXCEPT !.pc = "nodes", !.trig = trig, !.want = want]

\* a command whose message Update has handled: nothing of it is left
Done == [Idle EXCEPT !.pc = "done"]

InFlight == {i \in Attempts : attempts[i].pc \in {"nodes", "jobs", "reply"}}

\* no command is left when the process has ended
NoCommands == [i \in Attempts |-> Idle]

\* the bounds leave room for one more command
CanStart == nextId <= MaxAttempts /\ Cardinality(InFlight) < MaxInFlight

\* time.Now(): a logical clock, the number of the result event being handled
Now == Len(completed) + 1

(***************************************************************************)
(* The command App.fetchData returns. It runs in a goroutine of its own    *)
(* and reads a.currentPartition when it makes each call, not when the      *)
(* command is created.                                                     *)
(***************************************************************************)
errorMsg(e) == [type |-> "error", err |-> e]

dataMsg(ns, js, ujs, st) ==
    [type |-> "data", nodes |-> ns, jobs |-> js, userJobs |-> ujs, stats |-> st]

\* userJobs, err := GetUserJobs(...); if err != nil { userJobs = []models.Job{} }
fetchUserJobs(u) == IF u.ok THEN u.val ELSE << >>

\* nodes, err := GetNodes(a.currentPartition), with p the partition read:
\* the command after the call
AfterGetNodes(a, p) ==
    {IF r.ok
        THEN [a EXCEPT !.pc = "jobs", !.trig = "", !.partN = p, !.nodes = r.val]
        ELSE [Idle EXCEPT !.pc = "reply", !.failed = "nodes",
                          !.msg = errorMsg("GetNodes")]
     : r \in GetNodes(p)}

\* mutant of AfterGetJobs: a failure of GetUserJobs returned as the error of
\* the attempt
AfterGetJobs_UserErrAborts(a, p) ==
    UNION {IF ~r.ok
              THEN {[Idle EXCEPT !.pc = "reply", !.failed = "jobs",
                                 !.msg = errorMsg("GetJobs")]}
              ELSE {IF ~u.ok
                       THEN [Idle EXCEPT !.pc = "reply", !.partN = a.partN, !.partJ = p,
                                         !.userErr = TRUE,
                                         !.msg = errorMsg("GetUserJobs")]
                       ELSE [Idle EXCEPT !.pc = "reply", !.partN = a.partN, !.partJ = p,
                                         !.msg = dataMsg(sorted, r.val, u.val,
                                                         calculateStats(sorted))]
                    : u \in GetUserJobs(currentUser), sorted \in SortOutcomes(a.nodes)}
           : r \in GetJobs(p)}

\* from jobs, err := GetJobs(a.currentPartition), with p the partition read, to
\* the return of the message: GetUserJobs, the sort and calculateStats
AfterGetJobs(a, p) ==
    UNION {IF ~r.ok
              THEN {[Idle EXCEPT !.pc = "reply", !.failed = "jobs",
                                 !.msg = errorMsg("GetJobs")]}
              ELSE {[Idle EXCEPT !.pc = "reply", !.partN = a.partN, !.partJ = p,
                                 !.userErr = ~u.ok,
                                 !.msg = dataMsg(sorted, r.val, fetchUserJobs(u),
                                                 calculateStats(sorted))]
                    : u \in GetUserJobs(currentUser), sorted \in SortOutcomes(a.nodes)}
           : r \in GetJobs(p)}

\* the next call of command i, made with partition p
AfterCall(a, p) ==
    IF a.pc = "nodes" THEN AfterGetNodes(a, p) ELSE AfterGetJobs(a, p)

\* command i calls GetNodes
FetchNodes(i) ==
    /\ status = "running"
    /\ attempts[i].pc = "nodes"
    /\ \E a \in AfterGetNodes(attempts[i], currentPartition) :
          attempts' = [attempts EXCEPT ![i] = a]
    /\ UNCHANGED <<appVars, timers, nextId, histVars, aggVars>>

\* command i calls GetJobs and runs to its return
FetchJobs(i) ==
    /\ status = "running"
    /\ attempts[i].pc = "jobs"
    /\ \E a \in AfterGetJobs(attempts[i], currentPartition) :
          attempts' = [attempts EXCEPT ![i] = a]
    /\ UNCHANGED <<appVars, timers, nextId, histVars, aggVars>>

(***************************************************************************)
(* App.Update, one action per message and key.                             *)
(***************************************************************************)
\* cmds = append(cmds, a.fetchData()): one more command, the others untouched
StartFetch(trig) ==
    /\ CanStart
    /\ attempts' = [attempts EXCEPT ![nextId] = Started(trig, "")]
    /\ nextId' = nextId + 1

\* case tea.WindowSizeMsg
WindowSizes == {<<80, 24>>}

\* mutant of WindowSizeMsg: a resize clears the error
WindowSizeMsg_ClearsError(w, h) ==
    /\ status = "running"
    /\ size' = <<w, h>>
    /\ nodesTable' = [nodesTable EXCEPT
                        !.width = w - 4,
                        !.height = IF h - 12 < 5 THEN 5 ELSE h - 12]
    /\ err' = NoErr
    /\ UNCHANGED <<currentPartition, nodes, jobs, userJobs, stats, lastUpdate,
                   status, timers, attempts, nextId, histVars, aggVars>>

WindowSizeMsg(w, h) ==
    /\ status = "running"
    /\ size' = <<w, h>>
    /\ nodesTable' = [nodesTable EXCEPT
                        !.width = w - 4,
                        !.height = IF h - 12 < 5 THEN 5 ELSE h - 12]
    /\ UNCHANGED <<currentPartition, nodes, jobs, userJobs, stats, lastUpdate, err,
                   status, timers, attempts, nextId, histVars, aggVars>>

\* case key.Matches(msg, a.keys.Quit): return a, tea.Quit. The program ends,
\* and with the process its goroutines: the commands and the timer in flight
KeyQuit ==
    /\ status = "running"
    /\ status' = "quit"
    /\ attempts' = NoCommands
    /\ timers' = 0
    /\ UNCHANGED <<currentPartition, nodes, jobs, userJobs, stats, lastUpdate, err,
                   size, nodesTable, nextId, histVars, aggVars>>

\* mutant of KeyRefresh: the commands in flight are dropped for the new one
KeyRefresh_Restarts ==
    /\ status = "running"
    /\ CanStart
    /\ attempts' = [i \in Attempts |->
                       IF i = nextId THEN Started("refresh", "")
                       ELSE IF i \in InFlight THEN Idle ELSE attempts[i]]
    /\ nextId' = nextId + 1
    /\ UNCHANGED <<appVars, timers, histVars, aggVars>>

\* case key.Matches(msg, a.keys.Refresh)
KeyRefresh ==
    /\ status = "running"
    /\ StartFetch("refresh")
    /\ UNCHANGED <<appVars, timers, histVars, aggVars>>

\* a.currentPartition = p; cmds = append(cmds, a.fetchData()).
\* The write is not synchronised with the reads of the commands in flight:
\* a command reads the old or the new value according to the order of the
\* steps, and a read that overlaps the write of a string of another length
\* is torn (second disjunct).
SwitchPartition(p) ==
    /\ status = "running"
    /\ CanStart
    /\ currentPartition' = p
    /\ nextId' = nextId + 1
    /\ \/ attempts' = [attempts EXCEPT ![nextId] = Started("switch", p)]
       \/ /\ Len(currentPartition) # Len(p)
          /\ \E i \in Attempts :
                /\ attempts[i].pc \in {"nodes", "jobs"}
                /\ \E a \in AfterCall(attempts[i], TornPartition) :
                      attempts' = [attempts EXCEPT ![nextId] = Started("switch", p),
                                                   ![i] = a]
    /\ UNCHANGED <<nodes, jobs, userJobs, stats, lastUpdate, err, size, nodesTable,
                   status, timers, histVars, aggVars>>

\* case key.Matches(msg, a.keys.Batch)
KeyBatch == SwitchPartition("batch")

\* case key.Matches(msg, a.keys.HighMem)
KeyHighMem == SwitchPartition("highmem_q")

\* case key.Matches(msg, a.keys.GPU)
KeyGPU == SwitchPartition("gpu_q")

\* mutant of TickMsg: the timer is not armed again
TickMsg_NoRearm ==
    /\ status = "running"
    /\ timers > 0
    /\ timers' = timers - 1
    /\ StartFetch("tick")
    /\ UNCHANGED <<appVars, histVars, aggVars>>

\* case tickMsg: cmds = append(cmds, a.tick(), a.fetchData()). The timer that
\* sent the message is spent, a.tick() arms the next one.
TickMsg ==
    /\ status = "running"
    /\ timers > 0
    /\ timers' = (timers - 1) + 1
    /\ StartFetch("tick")
    /\ UNCHANGED <<appVars, histVars, aggVars>>

\* mutant of DataMsg: a.stats is not assigned
DataMsg_KeepsStats(i) ==
    /\ status = "running"
    /\ attempts[i].pc = "reply"
    /\ attempts[i].msg.type = "data"
    /\ nodes' = attempts[i].msg.nodes
    /\ jobs' = attempts[i].msg.jobs
    /\ userJobs' = attempts[i].msg.userJobs
    /\ lastUpdate' = Now
    /\ err' = NoErr
    /\ IF updateTablePanics(nodes')
          THEN /\ status' = "panic"
               /\ nodesTable' = nodesTable
               /\ attempts' = NoCommands
               /\ timers' = 0
          ELSE /\ status' = status
               /\ nodesTable' = [nodesTable EXCEPT !.rows = updateTableRows(nodes', userJobs')]
               /\ attempts' = [attempts EXCEPT ![i] = Done]
               /\ timers' = timers
    /\ completed' = Append(completed, [id |-> i, ok |-> TRUE])
    /\ src' = [src EXCEPT !.nodes = i, !.jobs = i, !.userJobs = i]
    /\ UNCHANGED <<currentPartition, stats, size, nextId, aggVars>>

\* mutant of DataMsg: the message of a command started before the one
\* published is dropped
DataMsg_NewestWins(i) ==
    /\ status = "running"
    /\ attempts[i].pc = "reply"
    /\ attempts[i].msg.type = "data"
    /\ IF i > src.nodes
          THEN /\ nodes' = attempts[i].msg.nodes
               /\ jobs' = attempts[i].msg.jobs
               /\ userJobs' = attempts[i].msg.userJobs
               /\ stats' = attempts[i].msg.stats
               /\ lastUpdate' = Now
               /\ src' = [nodes |-> i, jobs |-> i, userJobs |-> i, stats |-> i]
          ELSE UNCHANGED <<nodes, jobs, userJobs, stats, lastUpdate, src>>
    /\ err' = NoErr
    /\ IF updateTablePanics(nodes')
          THEN /\ status' = "panic"
               /\ nodesTable' = nodesTable
               /\ attempts' = NoCommands
               /\ timers' = 0
          ELSE /\ status' = status
               /\ nodesTable' = [nodesTable EXCEPT !.rows = updateTableRows(nodes', userJobs')]
               /\ attempts' = [attempts EXCEPT ![i] = Done]
               /\ timers' = timers
    /\ completed' = Append(completed, [id |-> i, ok |-> TRUE])
    /\ UNCHANGED <<currentPartition, size, nextId, aggVars>>

\* case dataMsg, with the message of command i: the six assignments, then
\* a.updateTable(), which panics on a node whose bar cannot be drawn: the
\* assignments are made, the table is not updated and the program ends
DataMsg(i) ==
    /\ status = "running"
    /\ attempts[i].pc = "reply"
    /\ attempts[i].msg.type = "data"
    /\ nodes' = attempts[i].msg.nodes
    /\ jobs' = attempts[i].msg.jobs
    /\ userJobs' = attempts[i].msg.userJobs
    /\ stats' = attempts[i].msg.stats
    /\ lastUpdate' = Now
    /\ err' = NoErr
    /\ IF updateTablePanics(nodes')
          THEN /\ status' = "panic"
               /\ nodesTable' = nodesTable
               /\ attempts' = NoCommands
               /\ timers' = 0
          ELSE /\ status' = status
               /\ nodesTable' = [nodesTable EXCEPT !.rows = updateTableRows(nodes', userJobs')]
               /\ attempts' = [attempts EXCEPT ![i] = Done]
               /\ timers' = timers
    /\ completed' = Append(completed, [id |-> i, ok |-> TRUE])
    /\ src' = [nodes |-> i, jobs |-> i, userJobs |-> i, stats |-> i]
    /\ UNCHANGED <<currentPartition, size, nextId, aggVars>>

\* mutant of ErrorMsg: the stale snapshot is cleared when the error is shown
ErrorMsg_ClearsSnapshot(i) ==
    /\ status = "running"
    /\ attempts[i].pc = "reply"
    /\ attempts[i].msg.type = "error"
    /\ err' = attempts[i].msg.err
    /\ nodes' = << >>
    /\ stats' = ZeroStats
    /\ attempts' = [attempts EXCEPT ![i] = Done]
    /\ completed' = Append(completed, [id |-> i, ok |-> FALSE])
    /\ UNCHANGED <<currentPartition, jobs, userJobs, lastUpdate, size,
                   nodesTable, status, timers, nextId, src, aggVars>>

\* mutant of ErrorMsg: an error ends the program
ErrorMsg_Fatal(i) ==
    /\ status = "running"
    /\ attempts[i].pc = "reply"
    /\ attempts[i].msg.type = "error"
    /\ err' = attempts[i].msg.err
    /\ status' = "quit"
    /\ attempts' = NoCommands
    /\ timers' = 0
    /\ completed' = Append(completed, [id |-> i, ok |-> FALSE])
    /\ UNCHANGED <<currentPartition, nodes, jobs, userJobs, stats, lastUpdate, size,
                   nodesTable, nextId, src, aggVars>>

\* case errorMsg, with the message of command i
ErrorMsg(i) ==
    /\ status = "running"
    /\ attempts[i].pc = "reply"
    /\ attempts[i].msg.type = "error"
    /\ err' = attempts[i].msg.err
    /\ attempts' = [attempts EXCEPT ![i] = Done]
    /\ completed' = Append(completed, [id |-> i, ok |-> FALSE])
    /\ UNCHANGED <<currentPartition, nodes, jobs, userJobs, stats, lastUpdate, size,
                   nodesTable, status, timers, nextId, src, aggVars>>

(***************************************************************************)
(* NewApp and App.Init: the zero App with the partition of the -q flag,    *)
(* the first fetchData command and the first timer.                        *)
(***************************************************************************)
Init ==
    /\ currentPartition \in InitPartitions
    /\ nodes = << >>
    /\ jobs = << >>
    /\ userJobs = << >>
    /\ stats = ZeroStats
    /\ lastUpdate = 0
    /\ err = NoErr
    /\ size = <<0, 0>>
    /\ nodesTable = [width |-> 0, height |-> 15, rows |-> << >>]
    /\ status = "running"
    /\ timers = 1
    /\ attempts = [i \in Attempts |->
                      IF i = 1 THEN Started("init", "") ELSE Idle]
    /\ nextId = 2
    /\ completed = << >>
    /\ src = [nodes |-> 0, jobs |-> 0, userJobs |-> 0, stats |-> 0]
    /\ input = << >>
    /\ output = NoOutput

\* Next leaves out the changes of the terminal's size, which touch only the
\* size of the view and of the table; NextUI has them
Next ==
    \/ KeyQuit
    \/ KeyRefresh
    \/ KeyBatch
    \/ KeyHighMem
    \/ KeyGPU
    \/ TickMsg
    \/ \E i \in Attempts : FetchNodes(i)
    \/ \E i \in Attempts : FetchJobs(i)
    \/ \E i \in Attempts : DataMsg(i)
    \/ \E i \in Attempts : ErrorMsg(i)

Spec == Init /\ [][Next]_vars

NextUI ==
    \/ Next
    \/ \E sz \in WindowSizes : WindowSizeMsg(sz[1], sz[2])

SpecUI == Init /\ [][NextUI]_vars

\* the timers fire, the commands return and Update handles every message
\* that is sent to it
Fairness ==
    /\ WF_vars(TickMsg)
    /\ \A i \in Attempts :
          /\ WF_vars(FetchNodes(i))
          /\ WF_vars(FetchJobs(i))
          /\ WF_vars(DataMsg(i))
          /\ WF_vars(ErrorMsg(i))

SpecLive == Spec /\ Fairness

(***************************************************************************)
(* The aggregation engine alone: a node list as an adapter can return it,  *)
(* and calculateStats applied to it.                                       *)
(***************************************************************************)
\* <<TotalCores, UsedCores>>: partly used, no cores at all, and more used
\* than there are (CPUAlloc above CPUTot)
CorePairs == {<<4, 1>>, <<0, 0>>, <<4, 6>>}

\* <<TotalMemMB, UsedMemMB>>: partly used, full, less than a GB free, and a
\* negative use (Torque derives used as total - available)
MemPairs == {<<2500, 700>>, <<1500, 1500>>, <<900, 0>>, <<1000, -1500>>}

NodePool ==
    {Node("n", st, c[1], c[2], m[1], m[2]) : st \in NodeStates, c \in CorePairs, m \in MemPairs}

NodeLists == UNION {[1..n -> NodePool] : n \in 0..MaxLen}

InitAgg ==
    /\ currentPartition = "batch"
    /\ nodes = << >>
    /\ jobs = << >>
    /\ userJobs = << >>
    /\ stats = ZeroStats
    /\ lastUpdate = 0
    /\ err = NoErr
    /\ size = <<0, 0>>
    /\ nodesTable = [width |-> 0, height |-> 15, rows |-> << >>]
    /\ status = "running"
    /\ timers = 0
    /\ attempts = [i \in Attempts |-> Idle]
    /\ nextId = 1
    /\ completed = << >>
    /\ src = [nodes |-> 0, jobs |-> 0, userJobs |-> 0, stats |-> 0]
    /\ input \in NodeLists
    /\ output = NoOutput

\* stats := a.calculateStats(nodes)
ComputeStats ==
    /\ output = NoOutput
    /\ output' = [op |-> "calculateStats", stats |-> calculateStats(input)]
    /\ UNCHANGED <<appVars, timers, attempts, nextId, histVars, input>>

NextAgg == ComputeStats

SpecAgg == InitAgg /\ [][NextAgg]_vars

(***************************************************************************)
(* Properties of the aggregation engine (under SpecAgg).                   *)
(***************************************************************************)
RECURSIVE SumSeq(_)
SumSeq(xs) == IF xs = << >> THEN 0 ELSE xs[Len(xs)] + SumSeq(SubSeq(xs, 1, Len(xs) - 1))

SumTotalCores(ns) == SumSeq([k \in 1..Len(ns) |-> ns[k].TotalCores])
SumUsedCores(ns) == SumSeq([k \in 1..Len(ns) |-> ns[k].UsedCores])
SumTotalMemGB(ns) == SumSeq([k \in 1..Len(ns) |-> GetTotalMemGB(ns[k])])
SumUsedMemGB(ns) == SumSeq([k \in 1..Len(ns) |-> GetUsedMemGB(ns[k])])

StatsComputed == output # NoOutput /\ output.op = "calculateStats"

\* C9: for every node list, calculateStats returns AvailCores = TotalCores -
\* UsedCores and AvailMemoryGB = TotalMemoryGB - UsedMemoryGB, the totals
\* being the sums over the list of the nodes' cores and of their total and
\* used memory in GB.
C9_AvailIsTotalMinusUsed ==
    StatsComputed =>
        /\ output.stats.TotalCores = SumTotalCores(input)
        /\ output.stats.UsedCores = SumUsedCores(input)
        /\ output.stats.TotalMemoryGB = SumTotalMemGB(input)
        /\ output.stats.UsedMemoryGB = SumUsedMemGB(input)
        /\ output.stats.AvailCores = SumTotalCores(input) - SumUsedCores(input)
        /\ output.stats.AvailMemoryGB = SumTotalMemGB(input) - SumUsedMemGB(input)

\* C9 witness: the statistics of a full-length list with an over-committed
\* node and a node of negative memory use, whose differences are not the
\* sums of the per-node figures
C9_Witness ==
    /\ StatsComputed
    /\ Len(input) = MaxLen
    /\ \E k \in 1..Len(input) : input[k].UsedCores > input[k].TotalCores
    /\ \E k \in 1..Len(input) : input[k].UsedMemMB < 0
    /\ output.stats.AvailCores < 0
    /\ output.stats.AvailMemoryGB > 0

\* C10: for every node list, AvailNodes is the number of nodes of the list
\* for which IsAvailable holds, and TotalNodes is the length of the list.
C10_AvailNodesCountsIsAvailable ==
    StatsComputed =>
        /\ output.stats.AvailNodes =
              Cardinality({k \in 1..Len(input) : IsAvailable(input[k])})
        /\ output.stats.TotalNodes = Len(input)

\* C10 witness: a list holding an available node, and an Idle node that is
\* not available for want of capacity
C10_Witness ==
    /\ StatsComputed
    /\ Len(input) = MaxLen
    /\ output.stats.AvailNodes >= 1
    /\ output.stats.AvailNodes < output.stats.TotalNodes
    /\ \E k \in 1..Len(input) : input[k].State = StateIdle /\ ~IsAvailable(input[k])

(***************************************************************************)
(* Properties of the refresh orchestrator (under Spec and SpecLive).       *)
(***************************************************************************)
\* the step hands the message of command i to Update
Handles(i) ==
    /\ attempts[i].pc = "reply"
    /\ Len(completed') = Len(completed) + 1
    /\ completed'[Len(completed')].id = i

\* the positions of completed at which a dataMsg was handled
OkAt == {k \in 1..Len(completed) : completed[k].ok}

LastOk == CHOOSE k \in OkAt : \A m \in OkAt : m <= k

\* the step is Update handling a refresh trigger
Trigger == KeyRefresh \/ KeyBatch \/ KeyHighMem \/ KeyGPU \/ TickMsg

\* the step starts exactly one command, the one numbered nextId, and leaves
\* every command in flight in flight
StartsOne ==
    /\ nextId \notin InFlight
    /\ InFlight' = InFlight \cup {nextId}
    /\ attempts'[nextId].pc = "nodes"
    /\ nextId' = nextId + 1

\* C1: when the result of an attempt whose GetNodes or GetJobs failed is
\* handled, the error flag is set and the published nodes, jobs, userJobs,
\* stats and last-update time are unchanged.
C1_FailedAttemptPublishesNothing ==
    [][\A i \in Attempts :
          (attempts[i].failed \in {"nodes", "jobs"} /\ Handles(i)) =>
              /\ err' # NoErr
              /\ UNCHANGED <<nodes, jobs, userJobs, stats, lastUpdate>>]_vars

\* C1 witness: the error of a failed attempt is shown over a snapshot
\* published before it
C1_Witness ==
    /\ completed # << >>
    /\ ~completed[Len(completed)].ok
    /\ err # NoErr
    /\ OkAt # {}
    /\ nodes # << >>
    /\ lastUpdate = LastOk

\* C2: when the result of an attempt whose GetNodes and GetJobs succeeded
\* and whose GetUserJobs failed is handled, its nodes, jobs and stats are
\* published with userJobs empty, and the error flag is clear.
C2_UserJobsFailureIsSwallowed ==
    [][\A i \in Attempts :
          (attempts[i].userErr /\ Handles(i)) =>
              /\ attempts[i].msg.type = "data"
              /\ nodes' = attempts[i].msg.nodes /\ nodes' # << >>
              /\ jobs' = attempts[i].msg.jobs
              /\ stats' = attempts[i].msg.stats
              /\ userJobs' = << >>
              /\ err' = NoErr]_vars

\* C2 witness: a snapshot published without user jobs while the program
\* goes on, after an error was shown
C2_Witness ==
    /\ status = "running"
    /\ Len(completed) >= 2
    /\ ~completed[1].ok
    /\ completed[Len(completed)].ok
    /\ nodes # << >>
    /\ jobs # << >>
    /\ userJobs = << >>
    /\ err = NoErr

\* C3: in every state the published nodes, jobs, userJobs and stats were
\* taken from one and the same attempt, and stats is calculateStats of the
\* published nodes.
C3_SnapshotFromOneAttempt ==
    /\ src.jobs = src.nodes
    /\ src.userJobs = src.nodes
    /\ src.stats = src.nodes
    /\ stats = calculateStats(nodes)

\* C3 witness: a second snapshot has replaced a first one of another node
\* list while a third attempt is in flight
C3_Witness ==
    /\ Cardinality(OkAt) >= 2
    /\ InFlight # {}
    /\ src.nodes # 0
    /\ stats.TotalNodes = 1

\* C4: the published snapshot is the result of the successful attempt whose
\* result was handled last, whatever the order in which the attempts were
\* started (and nothing is published before the first of them).
C4_LastCompletedWins ==
    IF OkAt = {}
        THEN src.nodes = 0 /\ nodes = << >> /\ lastUpdate = 0
        ELSE /\ src.nodes = completed[LastOk].id
             /\ lastUpdate = LastOk

\* C4 witness: two overlapping attempts have completed in the reverse of the
\* order they were started, and the one started first is published
C4_Witness ==
    /\ InFlight = {}
    /\ \E k, m \in OkAt :
          /\ k < m
          /\ m = LastOk
          /\ completed[k].id > completed[m].id
          /\ src.nodes = completed[m].id

\* C5: every refresh trigger starts exactly one new attempt, also while
\* others are in flight; while the program runs an attempt in flight stays
\* in flight until its result is handled; no attempt has more than one
\* result handled, and a finished attempt has exactly one.
C5_OneAttemptPerTrigger ==
    [][/\ Trigger => StartsOne
       /\ \A i \in InFlight :
             status' = "running" => (i \in InFlight' \/ Handles(i))
       /\ \A i \in Attempts :
             /\ Cardinality({k \in 1..Len(completed') : completed'[k].id = i}) <= 1
             /\ attempts'[i].pc = "done" =>
                   Cardinality({k \in 1..Len(completed') : completed'[k].id = i}) = 1
             /\ i \in InFlight' => \A k \in 1..Len(completed') : completed'[k].id # i]_vars

\* C5 witness: a refresh key has started an attempt while another one,
\* started before it, is still in flight, and a third has delivered its result
C5_Witness ==
    /\ Cardinality(InFlight) = MaxInFlight
    /\ \E i \in InFlight : attempts[i].pc = "nodes" /\ attempts[i].trig = "refresh"
    /\ \E i \in InFlight : attempts[i].pc = "reply"
    /\ completed # << >>

\* C6: handling a tick starts exactly one attempt and arms exactly one timer
\* for the one that fired; one timer is pending from Init on, and no step of
\* the running program changes that.
C6_TickRearmsOneTimer ==
    /\ timers = 1
    /\ [][/\ TickMsg => (StartsOne /\ timers' = timers)
          /\ status' = "running" => timers' = 1]_vars

\* C6 witness: a tick has started an attempt while another is in flight, and
\* one timer is armed
C6_Witness ==
    /\ timers = 1
    /\ \E i \in InFlight : attempts[i].pc = "nodes" /\ attempts[i].trig = "tick"
    /\ \E i \in InFlight : attempts[i].pc # "nodes"

\* the result last handled was an error, and the bounds leave room for
\* attempt k
ErrorShown(k) ==
    /\ status = "running"
    /\ completed # << >>
    /\ ~completed[Len(completed)].ok
    /\ nextId = k

\* C7: handling an error result leaves the program running with its timer
\* armed; with timers firing a new attempt is then started; and a dataMsg
\* handled while the error is shown publishes its snapshot and clears it.
C7_ErrorDoesNotStopTheLoop ==
    /\ [][\A i \in Attempts :
            /\ (attempts[i].failed # "" /\ Handles(i)) =>
                  (status' = "running" /\ timers' = 1)
            /\ (err # NoErr /\ attempts[i].failed = "" /\ Handles(i)) =>
                  (nodes' = attempts[i].msg.nodes /\ lastUpdate' > lastUpdate
                   /\ err' = NoErr)]_vars
    /\ \A k \in 2..MaxAttempts :
          ErrorShown(k) ~> (nextId > k \/ status # "running")

\* C7 witness: after an error was shown, a tick has started a new attempt
C7_Witness ==
    /\ completed # << >>
    /\ ~completed[Len(completed)].ok
    /\ err # NoErr
    /\ \E i \in InFlight : attempts[i].pc = "nodes" /\ attempts[i].trig = "tick"
    /\ timers = 1

\* C8 (as claimed): a partition key makes its partition the active one, and
\* the attempt it starts calls GetNodes and GetJobs with that partition.
C8_SwitchFetchesItsPartition ==
    [][/\ \A p \in KeyPartitions : SwitchPartition(p) => currentPartition' = p
       /\ \A i \in Attempts :
             /\ (attempts[i].want # "" /\ attempts[i].pc = "nodes"
                 /\ attempts'[i].pc = "jobs") =>
                   attempts'[i].partN = attempts[i].want
             /\ (attempts[i].want # "" /\ attempts[i].pc = "jobs"
                 /\ attempts'[i].pc = "reply" /\ attempts'[i].failed = "") =>
                   attempts'[i].partJ = attempts[i].want]_vars

(***************************************************************************)
(* The node records of the adapters: parseNodeInfo of the Torque and of    *)
(* the SLURM scheduler applied to one record, then Node.IsAvailable to the *)
(* node parsed.                                                            *)
(***************************************************************************)
\* a field handed to strconv.Atoi: a number, or text Atoi returns an error for
Num(v) == [num |-> TRUE, val |-> v]
NotANumber == [num |-> FALSE, val |-> 0]

\* strings.ToLower, on the state words of the reports
ToLower(w) ==
    CASE w = "IDLE" -> "idle"
      [] w = "MIXED" -> "mixed"
      [] w = "ALLOCATED" -> "allocated"
      [] w = "DOWN" -> "down"
      [] w = "DRAINED" -> "drained"
      [] w = "RESERVED" -> "reserved"
      [] w = "Busy" -> "busy"
      [] w = "Down" -> "down"
      [] OTHER -> w

\* TorqueScheduler.parseNodeState
TorqueParseNodeState(state) ==
    CASE ToLower(state) = "free" -> StateIdle
      [] ToLower(state) = "busy" -> StateBusy
      [] ToLower(state) = "down" -> StateDown
      [] ToLower(state) = "offline" -> StateOffline
      [] OTHER -> StateBusy

\* TorqueScheduler.parseNodeInfo on a line of four fields or more: the
\* columns "available:total" of the processors and of the memory in KB
TorqueParseNodeInfo(line) ==
    LET tc == IF line.cpuTotal.num THEN line.cpuTotal.val ELSE 0
        uc == IF line.cpuAvail.num THEN tc - line.cpuAvail.val ELSE 0
        tm == IF line.memTotal.num THEN GoDiv(line.memTotal.val, 1000) ELSE 0
        um == IF line.memAvail.num THEN tm - GoDiv(line.memAvail.val, 1000) ELSE 0
    IN  Node(line.id, TorqueParseNodeState(line.state), tc, uc, tm, um)

\* mutant of SlurmParseNodeState: a DRAIN flag after the '+' read as Drained
SlurmParseNodeState_ReadsFlags(state) ==
    LET baseState == ToLower(state[1])
    IN  IF Len(state) > 1 /\ state[2] = "DRAIN" THEN StateDrained
        ELSE CASE baseState = "idle" -> StateIdle
               [] baseState \in {"allocated", "mixed"} -> StateRunning
               [] baseState = "down" -> StateDown
               [] baseState = "offline" -> StateOffline
               [] baseState \in {"drained", "drain"} -> StateDrained
               [] OTHER -> StateBusy

\* SlurmScheduler.parseNodeState; state is the State value cut at its '+'
SlurmParseNodeState(state) ==
    LET baseState == ToLower(state[1])
    IN  CASE baseState = "idle" -> StateIdle
          [] baseState \in {"allocated", "mixed"} -> StateRunning
          [] baseState = "down" -> StateDown
          [] baseState = "offline" -> StateOffline
          [] baseState \in {"drained", "drain"} -> StateDrained
          [] OTHER -> StateBusy

\* SlurmScheduler.parseNodeInfo on the key=value fields of one node
SlurmParseNodeInfo(rec) ==
    Node(rec.id, SlurmParseNodeState(rec.state),
         IF rec.CPUTot.num THEN rec.CPUTot.val ELSE 0,
         IF rec.CPUAlloc.num THEN rec.CPUAlloc.val ELSE 0,
         IF rec.RealMemory.num THEN rec.RealMemory.val ELSE 0,
         IF rec.AllocMem.num THEN rec.AllocMem.val ELSE 0)

\* the lines of mdiag -n -v
TorqueLines ==
    [backend : {"torque"}, id : {"n"},
     state : {"free", "Busy", "Down", "offline", "Idle"},
     cpuAvail : {Num(0), Num(4), NotANumber},
     cpuTotal : {Num(0), Num(4), NotANumber},
     memAvail : {Num(0), Num(900000), Num(8000000)},
     memTotal : {Num(16000000), NotANumber}]

\* the node records of scontrol show nodes
SlurmRecords ==
    [backend : {"slurm"}, id : {"n"},
     state : {<<"IDLE">>, <<"MIXED">>, <<"ALLOCATED">>, <<"DOWN">>,
              <<"IDLE", "DRAIN">>, <<"RESERVED">>,
              <<"MIXED", "CLOUD">>, <<"RESERVED", "DRAIN">>},
     CPUAlloc : {Num(0), Num(2), Num(6)},
     CPUTot : {Num(0), Num(4)},
     AllocMem : {Num(0), Num(15100), Num(16000)},
     RealMemory : {Num(16000)}]

\* the App of a specification that exercises one function alone
Detached ==
    /\ currentPartition = "batch"
    /\ nodes = << >>
    /\ jobs = << >>
    /\ userJobs = << >>
    /\ stats = ZeroStats
    /\ lastUpdate = 0
    /\ err = NoErr
    /\ size = <<0, 0>>
    /\ nodesTable = [width |-> 0, height |-> 15, rows |-> << >>]
    /\ status = "running"
    /\ timers = 0
    /\ attempts = [i \in Attempts |-> Idle]
    /\ nextId = 1
    /\ completed = << >>
    /\ src = [nodes |-> 0, jobs |-> 0, userJobs |-> 0, stats |-> 0]

InitNode ==
    /\ Detached
    /\ input \in TorqueLines \cup SlurmRecords
    /\ output = NoOutput

\* node, err := t.parseNodeInfo(line)
TorqueParse ==
    /\ output = NoOutput
    /\ input.backend = "torque"
    /\ output' = [op |-> "parseNodeInfo", node |-> TorqueParseNodeInfo(input)]
    /\ UNCHANGED <<appVars, timers, attempts, nextId, histVars, input>>

\* node, err := s.parseNodeInfo(nodeInfo)
SlurmParse ==
    /\ output = NoOutput
    /\ input.backend = "slurm"
    /\ output' = [op |-> "parseNodeInfo", node |-> SlurmParseNodeInfo(input)]
    /\ UNCHANGED <<appVars, timers, attempts, nextId, histVars, input>>

\* node.IsAvailable() on the node parsed
CallIsAvailable ==
    /\ output.op = "parseNodeInfo"
    /\ output' = [op |-> "IsAvailable", node |-> output.node,
                  avail |-> IsAvailable(output.node)]
    /\ UNCHANGED <<appVars, timers, attempts, nextId, histVars, input>>

NextNode == TorqueParse \/ SlurmParse \/ CallIsAvailable

SpecNode == InitNode /\ [][NextNode]_vars

(***************************************************************************)
(* Properties of Node.IsAvailable (under SpecNode).                        *)
(***************************************************************************)
AvailabilityComputed == output.op = "IsAvailable"

\* C11 (as claimed): a node is available iff its state is Idle or Running,
\* its total cores minus its used cores is positive, and its total memory
\* minus its used memory, in MB, is positive.
C11_AvailableIffFreeMB ==
    AvailabilityComputed =>
        (output.avail <=>
            /\ output.node.State \in {StateIdle, StateRunning}
            /\ output.node.TotalCores - output.node.UsedCores > 0
            /\ output.node.TotalMemMB - output.node.UsedMemMB > 0)

\* C11 (amended): a node is available iff its state is Idle or Running, its
\* total cores minus its used cores is positive, and its total memory minus
\* its used memory is at least 1000 MB, one whole GB.
C11_AvailableIffFreeWholeGB ==
    AvailabilityComputed =>
        (output.avail <=>
            /\ output.node.State \in {StateIdle, StateRunning}
            /\ output.node.TotalCores - output.node.UsedCores > 0
            /\ output.node.TotalMemMB - output.node.UsedMemMB >= 1000)

\* C11 witness: an Idle node with free cores and 900 MB of free memory is
\* found not available
C11_Witness ==
    /\ AvailabilityComputed
    /\ ~output.avail
    /\ output.node.State = StateIdle
    /\ output.node.TotalCores - output.node.UsedCores > 0
    /\ output.node.TotalMemMB - output.node.UsedMemMB = 900

\* C12 (as claimed): whatever resource fields the adapter parsed, a Down
\* node is not available and an Idle node of zero total cores is not
\* available.
C12_DownOrCorelessNeverAvailable ==
    AvailabilityComputed =>
        /\ output.node.State = StateDown => ~output.avail
        /\ (output.node.State = StateIdle /\ output.node.TotalCores = 0) => ~output.avail

(***************************************************************************)
(* The ranking alone: the sort of App.fetchData applied to a node list as  *)
(* an adapter returns it, and applied again to its own result.             *)
(***************************************************************************)
\* the nodes of the lists ranked, by <<State, TotalCores, UsedCores,
\* TotalMemMB, UsedMemMB>>: available nodes of 4 free cores with 2 and with
\* 50 GB free, of 5 free cores with 1 GB, of 3 free cores with 500 and with
\* 1500 GB; then unavailable nodes, one of each state, the Down one with
\* more free capacity than any available node and the Idle one without a
\* free core
RankPool ==
    {<<StateIdle, 4, 0, 2000, 0>>,
     <<StateIdle, 4, 0, 50000, 0>>,
     <<StateRunning, 8, 3, 1000, 0>>,
     <<StateIdle, 4, 1, 500000, 0>>,
     <<StateIdle, 4, 1, 1500000, 0>>,
     <<StateRunning, 4, 4, 2000, 1000>>,
     <<StateBusy, 4, 4, 2000, 2000>>,
     <<StateDrained, 4, 0, 2000, 0>>,
     <<StateDown, 16, 0, 64000, 0>>,
     <<StateOffline, 4, 0, 2000, 0>>,
     <<StateIdle, 4, 4, 2000, 0>>}

\* the node lists an adapter returns: the k-th node is named after its place
RankLists ==
    UNION {{[k \in 1..n |-> Node(ToString(k), f[k][1], f[k][2], f[k][3], f[k][4], f[k][5])]
               : f \in [1..n -> RankPool]} : n \in 0..MaxRank}

InitRank ==
    /\ Detached
    /\ input \in RankLists
    /\ output = NoOutput

\* sort.Slice(nodes, ...) on the list returned by GetNodes
RankNodes ==
    /\ output = NoOutput
    /\ \E s \in SortOutcomes(input) : output' = [op |-> "sort", nodes |-> s]
    /\ UNCHANGED <<appVars, timers, attempts, nextId, histVars, input>>

\* sort.Slice(nodes, ...) on a list it has ranked
RankAgain ==
    /\ output.op = "sort"
    /\ \E s \in SortOutcomes(output.nodes) :
          output' = [op |-> "resort", ranked |-> output.nodes, nodes |-> s]
    /\ UNCHANGED <<appVars, timers, attempts, nextId, histVars, input>>

NextRank == RankNodes \/ RankAgain

SpecRank == InitRank /\ [][NextRank]_vars

(***************************************************************************)
(* Properties of the ranking (under SpecRank).                             *)
(***************************************************************************)
Ranked == output.op \in {"sort", "resort"}

\* the places of the ranked list
Places == 1..Len(output.nodes)

\* the available cores and the available memory in GB of the node at place k
CoresAt(k) == output.nodes[k].TotalCores - output.nodes[k].UsedCores
MemGBAt(k) == GoDiv(output.nodes[k].TotalMemMB - output.nodes[k].UsedMemMB, 1000)
AvailAt(k) ==
    /\ output.nodes[k].State \in {StateIdle, StateRunning}
    /\ CoresAt(k) > 0
    /\ MemGBAt(k) > 0

\* the place in the input of the node at place k of the ranked list
PlaceInInput(k) == CHOOSE m \in 1..Len(input) : input[m].ID = output.nodes[k].ID

\* C13: in a ranked list every available node precedes every unavailable
\* node, whatever the resources of the unavailable node.
C13_AvailableFirst ==
    Ranked => \A i, j \in Places : (AvailAt(i) /\ ~AvailAt(j)) => i < j

\* C13 witness: an unavailable node of a greater power score was returned
\* before an available node and is ranked after it
C13_Witness ==
    /\ output.op = "sort"
    /\ \E i, j \in Places :
          /\ i < j
          /\ AvailAt(i) /\ ~AvailAt(j)
          /\ CoresAt(j) * 1000 + MemGBAt(j) > CoresAt(i) * 1000 + MemGBAt(i)
          /\ PlaceInInput(j) < PlaceInInput(i)

\* C14: the available nodes of a ranked list are in non-increasing order of
\* availableCores * 1000 + availableMemoryGB; of two available nodes with
\* equal available cores the one with more available memory GB comes first.
C14_AvailableByPowerDescending ==
    Ranked =>
        \A i, j \in Places : (AvailAt(i) /\ AvailAt(j) /\ i < j) =>
            /\ CoresAt(i) * 1000 + MemGBAt(i) >= CoresAt(j) * 1000 + MemGBAt(j)
            /\ CoresAt(i) = CoresAt(j) => MemGBAt(i) >= MemGBAt(j)

\* C14 witness: of two available nodes of equal available cores the one
\* with more memory was returned second and is ranked first
C14_Witness ==
    /\ output.op = "sort"
    /\ \E i, j \in Places :
          /\ i < j
          /\ AvailAt(i) /\ AvailAt(j)
          /\ CoresAt(i) = CoresAt(j)
          /\ MemGBAt(i) > MemGBAt(j)
          /\ PlaceInInput(j) < PlaceInInput(i)

\* C15 (as claimed): an available node with more available cores is ranked
\* before an available node with fewer, whatever their available memory.
C15_CoresDominate ==
    Ranked =>
        \A i, j \in Places :
            (AvailAt(i) /\ AvailAt(j) /\ CoresAt(i) > CoresAt(j)) => i < j

\* C15 (amended): an available node with more available cores is ranked
\* before an available node with fewer, provided the node with fewer cores
\* has less than 1000 GB more available memory.
C15_CoresDominateBelow1000GB ==
    Ranked =>
        \A i, j \in Places :
            (/\ AvailAt(i) /\ AvailAt(j)
             /\ CoresAt(i) > CoresAt(j)
             /\ MemGBAt(j) - MemGBAt(i) < 1000) => i < j

\* C15 witness: a node of 4 free cores and 2 GB is ranked before a node of
\* 3 free cores and 500 GB returned before it
C15_Witness ==
    /\ output.op = "sort"
    /\ \E i, j \in Places :
          /\ i < j
          /\ AvailAt(i) /\ AvailAt(j)
          /\ CoresAt(i) > CoresAt(j)
          /\ MemGBAt(j) - MemGBAt(i) >= 100
          /\ MemGBAt(j) - MemGBAt(i) < 1000
          /\ PlaceInInput(j) < PlaceInInput(i)

\* the state priority of the ranking rules: Running, Busy, Drained, Down,
\* Offline, and last every other state
StatePriority(st) ==
    CASE st = StateRunning -> 0
      [] st = StateBusy -> 1
      [] st = StateDrained -> 2
      [] st = StateDown -> 3
      [] st = StateOffline -> 4
      [] OTHER -> 5

\* C16 (as claimed): the unavailable nodes of a ranked list are in the state
\* priority order Running, Busy, Drained, Down, Offline, and an unavailable
\* node of another state comes after all of those.
C16_UnavailableByStatePriority ==
    Ranked =>
        \A i, j \in Places : (~AvailAt(i) /\ ~AvailAt(j) /\ i < j) =>
            StatePriority(output.nodes[i].State) <= StatePriority(output.nodes[j].State)

\* the two nodes tie under the ranking rules
Tie(a, b) == ~less(a, b) /\ ~less(b, a)

\* C17 (as claimed): two nodes that tie under the ranking rules keep the
\* relative order in which the adapter returned them.
C17_RankingIsStable ==
    output.op = "sort" =>
        \A i, j \in Places :
            (i < j /\ Tie(output.nodes[i], output.nodes[j])) =>
                PlaceInInput(i) < PlaceInInput(j)

OutOfRange(n) ==
    \/ n.UsedCores < 0 \/ n.UsedCores > n.TotalCores
    \/ n.UsedMemMB < 0 \/ n.UsedMemMB > n.TotalMemMB

\* C19 (as claimed): publishing a snapshot that holds a node whose used
\* cores or memory are outside 0..total completes normally: the program
\* runs on and the table has a row for every published node.
C19_OutOfRangeUsageIsNoCrash ==
    [][\A i \in Attempts :
          (/\ Handles(i)
           /\ attempts[i].msg.type = "data"
           /\ \E k \in 1..Len(attempts[i].msg.nodes) :
                 OutOfRange(attempts[i].msg.nodes[k])) =>
              /\ status' = "running"
              /\ nodes' = attempts[i].msg.nodes
              /\ Len(nodesTable'.rows) = Len(nodes')]_vars

(***************************************************************************)
(* The job reports of the adapters: GetJobs of the SLURM and of the Torque *)
(* scheduler applied to one report.                                        *)
(***************************************************************************)
\* the State column of sacct, character by character
SacctRunning == <<"R", "U", "N", "N", "I", "N", "G">>
SacctPending == <<"P", "E", "N", "D", "I", "N", "G">>
SacctRequeued == <<"R", "E", "Q", "U", "E", "U", "E", "D">>
SacctCompleted == <<"C", "O", "M", "P", "L", "E", "T", "E", "D">>
SacctStates == {SacctRunning, SacctPending, SacctRequeued, SacctCompleted}

\* the job_state values of qstat -f
QstatStates == {"R", "Q", "C"}

\* SlurmScheduler.parseJobInfo of the fields of one line: the state is the
\* first character of the State column, and fields[5][:1] panics (slice
\* bounds out of range) when the column is empty
SlurmParseJobInfo(rec) ==
    IF rec.fields < 12
        THEN [ok |-> FALSE, panics |-> FALSE, job |-> Job("", "", "", << >>, "")]
    ELSE IF rec.state = << >>
        THEN [ok |-> FALSE, panics |-> TRUE, job |-> Job("", "", "", << >>, "")]
    ELSE [ok |-> TRUE, panics |-> FALSE,
          job |-> Job(rec.id, rec.user, rec.state[1], <<rec.node>>, rec.partition)]

\* the loop of SlurmScheduler.GetJobs over the lines after the header
RECURSIVE SlurmJobsLoop(_, _, _, _)
SlurmJobsLoop(js, lines, k, partition) ==
    IF k > Len(lines) THEN [panics |-> FALSE, jobs |-> js]
    ELSE LET rec == lines[k]
             r == SlurmParseJobInfo(rec)
         IN  IF rec.fields < 12 THEN SlurmJobsLoop(js, lines, k + 1, partition)
             ELSE IF rec.partition # partition
                     THEN SlurmJobsLoop(js, lines, k + 1, partition)
             ELSE IF r.panics THEN [panics |-> TRUE, jobs |-> << >>]
             ELSE IF r.ok /\ r.job.State = JobRunning
                     THEN SlurmJobsLoop(Append(js, r.job), lines, k + 1, partition)
                     ELSE SlurmJobsLoop(js, lines, k + 1, partition)

\* the jobs returned, or the panic GetJobs ends in
SlurmGetJobs(lines, partition) == SlurmJobsLoop(<< >>, lines, 1, partition)

\* a text is the sequence of the qstat lines joined in it, each a key and
\* the value printed after it; strings.Contains(text, key)
Contains(text, key) == \E k \in 1..Len(text) : text[k].key = key

\* strings.TrimSpace(line[strings.Index(line, sep)+1:]): what follows the
\* first separator of the text, the value of a text of one line alone
AfterFirst(text) ==
    IF Len(text) = 1 THEN text[1].val ELSE "rest of the text"

\* strings.Split(jobInfo, "\n"): GetJobs joins the scanned lines without a
\* newline, so the split returns the whole text as one line
SplitLines(jobInfo) == <<jobInfo>>

\* the loop of TorqueScheduler.parseJobInfo over the lines of jobInfo
RECURSIVE TorqueParseLines(_, _, _)
TorqueParseLines(job, lines, k) ==
    IF k > Len(lines) THEN job
    ELSE LET line == lines[k]
             next ==
                 IF Contains(line, "Job Id:") THEN [job EXCEPT !.ID = AfterFirst(line)]
                 ELSE IF Contains(line, "Job_Name =") THEN job
                 ELSE IF Contains(line, "Job_Owner =")
                        THEN [job EXCEPT !.User = AfterFirst(line)]
                 ELSE IF Contains(line, "job_state =")
                        THEN [job EXCEPT !.State = AfterFirst(line)]
                 ELSE IF Contains(line, "exec_host =")
                        THEN [job EXCEPT !.NodeList = <<AfterFirst(line)>>]
                 ELSE job
         IN  TorqueParseLines(next, lines, k + 1)

TorqueParseJobInfo(jobInfo) ==
    TorqueParseLines(Job("", "", "", << >>, ""), SplitLines(jobInfo), 1)

\* the jobs so far extended by the job of jobInfo if it is running
TorqueKeep(js, jobInfo) ==
    IF jobInfo # << >> /\ TorqueParseJobInfo(jobInfo).State = JobRunning
        THEN Append(js, TorqueParseJobInfo(jobInfo))
        ELSE js

\* the loop of TorqueScheduler.GetJobs over the scanned lines, and the final
\* job after it
RECURSIVE TorqueJobsLoop(_, _, _, _)
TorqueJobsLoop(js, jobInfo, lines, k) ==
    IF k > Len(lines) THEN TorqueKeep(js, jobInfo)
    ELSE IF lines[k].key = "Job Id:"
            THEN TorqueJobsLoop(TorqueKeep(js, jobInfo), <<lines[k]>>, lines, k + 1)
            ELSE TorqueJobsLoop(js, Append(jobInfo, lines[k]), lines, k + 1)

TorqueGetJobs(lines) == TorqueJobsLoop(<< >>, << >>, lines, 1)

\* the lines sacct prints for one job
SacctLines ==
    [id : {"j"}, user : {"bob"}, node : {"batch001"},
     partition : {"batch", "gpu_q"}, state : SacctStates \cup {<< >>}, fields : {11, 12}]

\* the lines qstat -f prints for one job in state st
QstatBlock(id, st) ==
    <<[key |-> "Job Id:", val |-> id],
      [key |-> "Job_Owner =", val |-> "bob"],
      [key |-> "job_state =", val |-> st],
      [key |-> "exec_host =", val |-> "batch001"]>>

RECURSIVE Flatten(_)
Flatten(blocks) ==
    IF blocks = << >> THEN << >> ELSE Head(blocks) \o Flatten(Tail(blocks))

\* the reports of up to MaxJobs jobs, the k-th job named after its place
SlurmJobReports ==
    UNION {{[backend |-> "slurm", partition |-> "batch",
             lines |-> [k \in 1..n |-> [f[k] EXCEPT !.id = ToString(k)]]]
               : f \in [1..n -> SacctLines]} : n \in 0..MaxJobs}

TorqueJobReports ==
    UNION {{[backend |-> "torque", partition |-> "batch",
             states |-> f,
             lines |-> Flatten([k \in 1..n |-> QstatBlock(ToString(k), f[k])])]
               : f \in [1..n -> QstatStates]} : n \in 0..MaxJobs}

InitJobs ==
    /\ Detached
    /\ input \in SlurmJobReports \cup TorqueJobReports
    /\ output = NoOutput

\* SlurmScheduler.GetJobs(partition), sacct having run
SlurmJobs ==
    /\ output = NoOutput
    /\ input.backend = "slurm"
    /\ output' = [op |-> "GetJobs",
                  panics |-> SlurmGetJobs(input.lines, input.partition).panics,
                  jobs |-> SlurmGetJobs(input.lines, input.partition).jobs]
    /\ UNCHANGED <<appVars, timers, attempts, nextId, histVars, input>>

\* TorqueScheduler.GetJobs(partition), qstat -f partition having run
TorqueJobs ==
    /\ output = NoOutput
    /\ input.backend = "torque"
    /\ output' = [op |-> "GetJobs", panics |-> FALSE, jobs |-> TorqueGetJobs(input.lines)]
    /\ UNCHANGED <<appVars, timers, attempts, nextId, histVars, input>>

NextJobs == SlurmJobs \/ TorqueJobs

SpecJobs == InitJobs /\ [][NextJobs]_vars

(***************************************************************************)
(* Properties of GetJobs (under SpecJobs).                                 *)
(***************************************************************************)
\* the names of the jobs returned
ReturnedIDs == {output.jobs[k].ID : k \in 1..Len(output.jobs)}

\* the names of the jobs of the partition the scheduler reports as running
RunningIDs ==
    IF input.backend = "slurm"
        THEN {input.lines[k].id : k \in
                 {m \in 1..Len(input.lines) :
                     /\ input.lines[m].fields = 12
                     /\ input.lines[m].partition = input.partition
                     /\ input.lines[m].state = SacctRunning}}
        ELSE {ToString(k) : k \in {m \in 1..Len(input.states) : input.states[m] = "R"}}

\* C20 (as claimed): GetJobs returns the jobs of the partition whose
\* scheduler state is Running, all of them and no job in another state.
C20_OnlyAndAllRunningJobs ==
    output.op = "GetJobs" => ReturnedIDs = RunningIDs

(***************************************************************************)
(* Properties of the SLURM node state mapping (under SpecNode).            *)
(***************************************************************************)
\* the lifecycle state of a base state of scontrol, Busy for a base state
\* outside the table
LifecycleOf(base) ==
    CASE base = "IDLE" -> StateIdle
      [] base \in {"ALLOCATED", "MIXED"} -> StateRunning
      [] base = "DOWN" -> StateDown
      [] base = "OFFLINE" -> StateOffline
      [] base \in {"DRAINED", "DRAIN"} -> StateDrained
      [] OTHER -> StateBusy

KnownBaseStates == {"IDLE", "ALLOCATED", "MIXED", "DOWN", "OFFLINE", "DRAINED", "DRAIN"}

\* C21: the state of a node parsed from a SLURM record is the lifecycle
\* state of the part of its State value before the first '+', with or
\* without flags after it; a base state outside the table gives Busy, and
\* such a node is not available.
C21_StateFromBaseOnly ==
    (input.backend = "slurm" /\ output.op \in {"parseNodeInfo", "IsAvailable"}) =>
        /\ output.node.State = LifecycleOf(input.state[1])
        /\ input.state[1] \notin KnownBaseStates =>
              /\ output.node.State = StateBusy
              /\ output.op = "IsAvailable" => ~output.avail

\* C21 witness: a record of state IDLE+DRAIN with free cores and memory is
\* parsed as Idle and found available
C21_Witness ==
    /\ input.backend = "slurm"
    /\ output.op = "IsAvailable"
    /\ Len(input.state) > 1
    /\ input.state[1] = "IDLE"
    /\ output.node.State = StateIdle
    /\ output.avail

\* C22 (as claimed): a malformed record of the SLURM job report, of fewer
\* than 12 fields or of 12 fields some of them empty, is local to that
\* record: GetJobs does not crash and returns every well-formed running job
\* of the partition.
C22_MalformedJobRecordIsLocal ==
    (input.backend = "slurm" /\ output.op = "GetJobs") =>
        /\ ~output.panics
        /\ RunningIDs \subseteq ReturnedIDs

\* the number of blocks of the qstat report whose job_state is R
RunningBlocks == Cardinality({m \in 1..Len(input.states) : input.states[m] = "R"})

\* C23 (as claimed): Torque GetJobs returns one job for every block of the
\* report whose job_state is R and no other, with the owner and the state
\* parsed from the block; a report with such a block yields a non-empty
\* result.
C23_TorqueReturnsRunningBlocks ==
    (input.backend = "torque" /\ output.op = "GetJobs") =>
        /\ Len(output.jobs) = RunningBlocks
        /\ \A k \in 1..Len(output.jobs) :
              output.jobs[k].State = JobRunning /\ output.jobs[k].User = "bob"
        /\ RunningBlocks > 0 => output.jobs # << >>

(***************************************************************************)
(* The node reports of the adapters: GetNodes of the SLURM, Torque and     *)
(* mock scheduler applied to one report, and the error of an empty result  *)
(* handed to Update.                                                       *)
(***************************************************************************)
\* the zero value models.Node{} and its Partitions
ZeroNode == [node |-> Node("", "", 0, 0, 0, 0), Partitions |-> << >>]

\* one key=value field of the SLURM report, and the case of the switch of
\* parseNodeInfo for it
SlurmField(key, val) == [key |-> key, val |-> val]

SlurmApplyField(p, f) ==
    CASE f.key = "NodeName" -> [p EXCEPT !.node.ID = f.val]
      [] f.key = "State" -> [p EXCEPT !.node.State = SlurmParseNodeState(f.val)]
      [] f.key = "CPUAlloc" -> IF f.val.num THEN [p EXCEPT !.node.UsedCores = f.val.val] ELSE p
      [] f.key = "CPUTot" -> IF f.val.num THEN [p EXCEPT !.node.TotalCores = f.val.val] ELSE p
      [] f.key = "AllocMem" -> IF f.val.num THEN [p EXCEPT !.node.UsedMemMB = f.val.val] ELSE p
      [] f.key = "RealMemory" -> IF f.val.num THEN [p EXCEPT !.node.TotalMemMB = f.val.val] ELSE p
      [] f.key = "Partitions" -> [p EXCEPT !.Partitions = f.val]
      [] OTHER -> p

\* the loop of SlurmScheduler.parseNodeInfo over strings.Fields(nodeInfo)
RECURSIVE SlurmParseFields(_, _, _)
SlurmParseFields(p, fields, k) ==
    IF k > Len(fields) THEN p
    ELSE SlurmParseFields(SlurmApplyField(p, fields[k]), fields, k + 1)

\* SlurmScheduler.nodeInPartition
nodeInPartition(p, partition) ==
    \E k \in 1..Len(p.Partitions) : p.Partitions[k] = partition

\* the nodes so far extended by the node of nodeInfo if it is of the partition
SlurmKeep(ns, nodeInfo, partition) ==
    IF nodeInfo # << >> /\ nodeInPartition(SlurmParseFields(ZeroNode, nodeInfo, 1), partition)
        THEN Append(ns, SlurmParseFields(ZeroNode, nodeInfo, 1).node)
        ELSE ns

\* the loop of SlurmScheduler.GetNodes over the scanned lines, and the final
\* node after it; a line is the sequence of its fields
RECURSIVE SlurmNodesLoop(_, _, _, _, _)
SlurmNodesLoop(ns, nodeInfo, lines, k, partition) ==
    IF k > Len(lines) THEN SlurmKeep(ns, nodeInfo, partition)
    ELSE IF \E m \in 1..Len(lines[k]) : lines[k][m].key = "NodeName"
            THEN SlurmNodesLoop(SlurmKeep(ns, nodeInfo, partition), lines[k],
                                lines, k + 1, partition)
            ELSE SlurmNodesLoop(ns, nodeInfo \o lines[k], lines, k + 1, partition)

\* mutant of NodesOrError: an empty list returned without an error
NodesOrError_EmptyIsOk(ns) == [ok |-> TRUE, val |-> ns]

\* if len(nodes) == 0 { return nil, fmt.Errorf("no nodes found ...") }
NodesOrError(ns) ==
    IF Len(ns) = 0 THEN [ok |-> FALSE, val |-> << >>] ELSE [ok |-> TRUE, val |-> ns]

SlurmGetNodes(lines, partition) ==
    NodesOrError(SlurmNodesLoop(<< >>, << >>, lines, 1, partition))

\* the loop of TorqueScheduler.GetNodes: a line is taken if it carries the
\* tag [partition], and dropped if parseNodeInfo finds fewer than 4 fields
RECURSIVE TorqueNodesLoop(_, _, _, _)
TorqueNodesLoop(ns, lines, k, partition) ==
    IF k > Len(lines) THEN ns
    ELSE IF lines[k].tag = partition /\ lines[k].fields >= 4
            THEN TorqueNodesLoop(Append(ns, TorqueParseNodeInfo(lines[k])), lines,
                                 k + 1, partition)
            ELSE TorqueNodesLoop(ns, lines, k + 1, partition)

TorqueGetNodes(lines, partition) ==
    NodesOrError(TorqueNodesLoop(<< >>, lines, 1, partition))

\* MockScheduler.GetNodes: an error for a partition outside its switch, the
\* nodes generated otherwise
MockGetNodes(partition) ==
    IF NodeReports(partition) = {}
        THEN {[ok |-> FALSE, val |-> << >>]}
        ELSE {[ok |-> TRUE, val |-> r] : r \in NodeReports(partition)}

\* the lines of scontrol show nodes, by kind: a node of the partition batch
\* or gpu_q, and the malformed ones: "garbled" has no number where one is
\* due, "headless" lost its NodeName, "bare" lost its Partitions
SlurmLineKinds == {"batch", "gpu_q", "garbled", "headless", "bare"}

SlurmLine(kind, id) ==
    CASE kind \in {"batch", "gpu_q"} ->
           <<SlurmField("NodeName", id), SlurmField("State", <<"IDLE">>),
             SlurmField("CPUAlloc", Num(2)), SlurmField("CPUTot", Num(4)),
             SlurmField("AllocMem", Num(1000)), SlurmField("RealMemory", Num(16000)),
             SlurmField("Partitions", <<kind>>)>>
      [] kind = "garbled" ->
           <<SlurmField("NodeName", id), SlurmField("State", <<"IDLE">>),
             SlurmField("CPUAlloc", NotANumber), SlurmField("CPUTot", NotANumber),
             SlurmField("AllocMem", NotANumber), SlurmField("RealMemory", NotANumber),
             SlurmField("Partitions", <<"batch">>)>>
      [] kind = "headless" ->
           <<SlurmField("State", <<"DOWN">>), SlurmField("CPUAlloc", Num(9))>>
      [] OTHER ->
           <<SlurmField("NodeName", id), SlurmField("State", <<"IDLE">>),
             SlurmField("CPUAlloc", Num(2)), SlurmField("CPUTot", Num(4))>>

\* the lines of mdiag -n -v, by kind, each with the one tag [batch] or
\* [gpu_q]: "garbled" has no number in its columns, "short" has two fields
TorqueLineKinds == {"batch", "gpu_q", "garbled", "short"}

TorqueLine(kind, id) ==
    CASE kind \in {"batch", "gpu_q"} ->
           [id |-> id, state |-> "free", cpuAvail |-> Num(2), cpuTotal |-> Num(4),
            memAvail |-> Num(8000000), memTotal |-> Num(16000000),
            fields |-> 5, tag |-> kind]
      [] kind = "garbled" ->
           [id |-> id, state |-> "free", cpuAvail |-> NotANumber, cpuTotal |-> NotANumber,
            memAvail |-> NotANumber, memTotal |-> NotANumber,
            fields |-> 5, tag |-> "batch"]
      [] OTHER ->
           [id |-> id, state |-> "", cpuAvail |-> NotANumber, cpuTotal |-> NotANumber,
            memAvail |-> NotANumber, memTotal |-> NotANumber,
            fields |-> 2, tag |-> "batch"]

\* the lists of at most MaxLines of the kinds
KindLists(kinds) == UNION {[1..n -> kinds] : n \in 0..MaxLines}

\* the partitions asked for: debug_q is listed by GetPartitions and has no
\* node in any report
AskedPartitions == {"batch", "gpu_q", "debug_q"}

NodeReportInputs ==
    {[backend |-> "slurm", partition |-> p, kinds |-> ks,
      lines |-> [k \in 1..Len(ks) |-> SlurmLine(ks[k], ToString(k))]] :
        p \in AskedPartitions, ks \in KindLists(SlurmLineKinds)}
    \cup
    {[backend |-> "torque", partition |-> p, kinds |-> ks,
      lines |-> [k \in 1..Len(ks) |-> TorqueLine(ks[k], ToString(k))]] :
        p \in AskedPartitions, ks \in KindLists(TorqueLineKinds)}
    \cup
    {[backend |-> "mock", partition |-> p, kinds |-> << >>, lines |-> << >>] :
        p \in AskedPartitions}

\* the snapshot on screen before the fetch
PreviousNodes == <<Node("old001", StateIdle, 4, 0, 16000, 0)>>

InitNodes ==
    /\ currentPartition = "batch"
    /\ nodes = PreviousNodes
    /\ jobs = << >>
    /\ userJobs = << >>
    /\ stats = calculateStats(PreviousNodes)
    /\ lastUpdate = 1
    /\ err = NoErr
    /\ size = <<0, 0>>
    /\ nodesTable = [width |-> 0, height |-> 15, rows |-> << >>]
    /\ status = "running"
    /\ timers = 0
    /\ attempts = [i \in Attempts |-> Idle]
    /\ nextId = 1
    /\ completed = << >>
    /\ src = [nodes |-> 0, jobs |-> 0, userJobs |-> 0, stats |-> 0]
    /\ input \in NodeReportInputs
    /\ output = NoOutput

\* nodes, err := a.scheduler.GetNodes(partition), the command having run
SlurmNodes ==
    /\ output = NoOutput
    /\ input.backend = "slurm"
    /\ output' = [op |-> "GetNodes",
                  ok |-> SlurmGetNodes(input.lines, input.partition).ok,
                  val |-> SlurmGetNodes(input.lines, input.partition).val]
    /\ UNCHANGED <<appVars, timers, attempts, nextId, histVars, input>>

TorqueNodes ==
    /\ output = NoOutput
    /\ input.backend = "torque"
    /\ output' = [op |-> "GetNodes",
                  ok |-> TorqueGetNodes(input.lines, input.partition).ok,
                  val |-> TorqueGetNodes(input.lines, input.partition).val]
    /\ UNCHANGED <<appVars, timers, attempts, nextId, histVars, input>>

MockNodes ==
    /\ output = NoOutput
    /\ input.backend = "mock"
    /\ \E r \in MockGetNodes(input.partition) :
          output' = [op |-> "GetNodes", ok |-> r.ok, val |-> r.val]
    /\ UNCHANGED <<appVars, timers, attempts, nextId, histVars, input>>

\* if err != nil { return errorMsg(err) } in fetchData, and the errorMsg
\* case of Update on that message
NodesError ==
    /\ output.op = "GetNodes"
    /\ ~output.ok
    /\ err' = "GetNodes"
    /\ output' = [output EXCEPT !.op = "errorMsg"]
    /\ UNCHANGED <<currentPartition, nodes, jobs, userJobs, stats, lastUpdate, size,
                   nodesTable, status, timers, attempts, nextId, histVars, input>>

NextNodes == SlurmNodes \/ TorqueNodes \/ MockNodes \/ NodesError

SpecNodes == InitNodes /\ [][NextNodes]_vars

\* the lines of the report that are malformed, and the well-formed ones of
\* the partition asked for
Malformed == {k \in 1..Len(input.kinds) : input.kinds[k] \notin {"batch", "gpu_q"}}
WellFormed == {k \in 1..Len(input.kinds) : input.kinds[k] = input.partition}

\* the node a well-formed line describes
Described(k) ==
    IF input.backend = "slurm"
        THEN Node(ToString(k), StateIdle, 4, 2, 16000, 1000)
        ELSE Node(ToString(k), StateIdle, 4, 2, 16000, 8000)

\* the nodes returned are the ones the well-formed lines describe, in order
ReturnsDescribed ==
    /\ Len(output.val) = Cardinality(WellFormed)
    /\ \A m \in 1..Len(output.val) :
          \E k \in WellFormed :
              /\ output.val[m] = Described(k)
              /\ Cardinality({j \in WellFormed : j < k}) = m - 1

\* C24 (as claimed): GetNodes on a report of N >= 1 well-formed records of
\* the partition and one malformed record returns exactly the N nodes
\* described, their fields intact, and no error.
C24_MalformedNodeRecordIsDropped ==
    (/\ output.op = "GetNodes"
     /\ input.backend \in {"slurm", "torque"}
     /\ Cardinality(Malformed) = 1
     /\ WellFormed # {}) =>
        /\ output.ok
        /\ ReturnsDescribed

\* some record of the report is a node of the partition asked for
HasNodeOfPartition ==
    CASE input.backend = "slurm" ->
           \E k \in 1..Len(input.lines) : \E m \in 1..Len(input.lines[k]) :
               /\ input.lines[k][m].key = "Partitions"
               /\ \E j \in 1..Len(input.lines[k][m].val) :
                     input.lines[k][m].val[j] = input.partition
      [] input.backend = "torque" ->
           \E k \in 1..Len(input.lines) :
               input.lines[k].tag = input.partition /\ input.lines[k].fields >= 4
      [] OTHER -> input.partition \in {"batch", "highmem_q", "gpu_q"}

NodePartitions(ns) ==
    {p \in KeyPartitions :
        \E r \in NodeReports(p) :
            {r[k] : k \in 1..Len(r)} = {ns[k] : k \in 1..Len(ns)}}

\* C26 (as claimed): an attempt that returns data called GetNodes and GetJobs
\* with the same partition, and the snapshot published holds no jobs of a
\* partition other than the one of its nodes.
C26_OnePartitionPerAttempt ==
    /\ \A i \in Attempts :
          (attempts[i].pc = "reply" /\ attempts[i].msg.type = "data") =>
              attempts[i].partN = attempts[i].partJ
    /\ lastUpdate > 0 =>
          \A k \in 1..Len(jobs) : jobs[k].Partition \in NodePartitions(nodes)

\* C27 (as claimed): when no attempt is in flight and the error flag is
\* clear, the nodes and jobs published were fetched for the active partition.
C27_QuiescentDataIsOfActivePartition ==
    (status = "running" /\ InFlight = {} /\ err = NoErr /\ lastUpdate > 0) =>
        /\ currentPartition \in NodePartitions(nodes)
        /\ \A k \in 1..Len(jobs) : jobs[k].Partition = currentPartition

(***************************************************************************)
(* The error flag.                                                         *)
(***************************************************************************)
\* the error flag is set exactly when the last attempt to complete failed
ErrorTracksLastCompletion ==
    err # NoErr <=> (completed # << >> /\ ~completed[Len(completed)].ok)

\* C28: at every point the error flag is set if and only if the attempt that
\* completed last failed, and a step in which no attempt completes (a timer,
\* a key, a resize, a call of a command) leaves the flag as it is.
C28_ErrorIffLastAttemptFailed ==
    /\ []ErrorTracksLastCompletion
    /\ [][completed' = completed => err' = err]_vars

C28_Witness ==
    /\ err # NoErr
    /\ Len(completed) >= 2
    /\ completed[1].ok
    /\ size # <<0, 0>>
    /\ InFlight # {}
    /\ timers > 0

(***************************************************************************)
(* The available memory of the cluster and of its nodes (under SpecAgg).   *)
(***************************************************************************)
SumAvailMemGB(ns) == SumSeq([k \in 1..Len(ns) |-> GetAvailMemGB(ns[k])])

\* C29 (as claimed): for every node list, the AvailMemoryGB calculateStats
\* returns is the sum over the nodes of GetAvailMemGB.
C29_AvailMemoryIsSumOfNodes ==
    StatsComputed => output.stats.AvailMemoryGB = SumAvailMemGB(input)

====
